---- MODULE Spec2Model ----
(***************************************************************************)
(* Model of pymclevel/materials.py: the block registry (MCMaterials, Block)*)
(* and the palette conversion (guessFilterTable, _filterTable,             *)
(* filterConversion, conversionFunc).                                      *)
(*                                                                         *)
(* A registry is a record whose fields are the attributes of MCMaterials.  *)
(* Text (block names, alias text) is kept in the state as a string and is  *)
(* spelled out by Spell as a sequence of characters wherever the code      *)
(* looks inside it (startswith, in).                                       *)
(***************************************************************************)
EXTENDS Integers, Sequences, FiniteSets, TLC

VARIABLES mats, _conversionFuncs, funcsMade, guessRuns, lastCall, threads

vars == <<mats, _conversionFuncs, funcsMade, guessRuns, lastCall, threads>>

\* ------------------------------------------------------------------------
\* Program constants
\* ------------------------------------------------------------------------
id_limit == 4096
NumVariants == 16
Uint8 == 256
Uint16 == 65536
defaultBrightness == 0
defaultOpacity == 15
defaultColor == <<201, 119, 240, 255>>
NOTEX == <<496, 496>>
defaultTexture == NOTEX
FallbackBlock == <<35, 0>>

\* ------------------------------------------------------------------------
\* Bounds of the model
\* ------------------------------------------------------------------------
\* longest allBlocks list of a registry (Air included) while registries are
\* filled and converted in any order
MaxBlocks == 2
\* most blocks of the two registries together (both Airs included) when they
\* are filled before they are converted
MaxLoadBlocks == 5
\* longest allBlocks list (Air included) when one registry is filled
MaxRegBlocks == 3
\* guessRuns counts up to this value and stays there
MaxRuns == 3
\* longest filters / unavailable list handed to _filterTable directly
MaxEntries == 2

\* longest allBlocks list (Air included) of the registry with the short
\* list of blocks when guessFilterTable is called on its own
MaxFromBlocks == 3
\* longest allBlocks list (Air included) of the other registry then
MaxToBlocks == 3

\* longest allBlocks list (Air included) of the registry that is searched
MaxMatchBlocks == 3

\* most block definitions of a yaml document
MaxYamlBlocks == 3
\* most rot90cw calls on one texture list
MaxTurns == 4

\* number of threads that call conversionFunc, each once
MaxThreads == 2
\* longest allBlocks list of a registry (Air included) before the threads
\* start
MaxThreadBlocks == 2

\* The registries of the model: PCMaterials ("Alpha") and pocketMaterials.
Mats == {"Alpha", "Pocket"}
DefaultNameOf(m) == IF m = "Alpha" THEN "Future Block!" ELSE "Unused Block"

\* The primary IDs whose slots the model keeps, out of 0 .. id_limit - 1:
\* Air, a low ID and an ID that does not fit a byte.
ModelIDs == {i \in 0 .. (id_limit - 1) : i \in {0, 1, 257}}
\* The variants whose slots the model keeps, out of 0 .. NumVariants - 1.
Variants == {d \in 0 .. (NumVariants - 1) : d \in {0, 1, 3, 15}}

TypeTags == {"NORMAL", "STAIRS", "SLAB"}

\* ------------------------------------------------------------------------
\* Text
\* ------------------------------------------------------------------------
Spell(s) ==
    CASE s = "" -> <<>>
      [] s = "Air" -> <<"A", "i", "r">>
      [] s = "Ab" -> <<"A", "b">>
      [] s = "Abc" -> <<"A", "b", "c">>
      [] s = "cAb" -> <<"c", "A", "b">>
      [] s = "Zz" -> <<"Z", "z">>
      [] s = "Qq" -> <<"Q", "q">>
      [] s = "Future Block!" ->
           <<"F", "u", "t", "u", "r", "e", " ", "B", "l", "o", "c", "k", "!">>
      [] s = "Unused Block" ->
           <<"U", "n", "u", "s", "e", "d", " ", "B", "l", "o", "c", "k">>
      [] s = "Indigo Wool" ->
           <<"I", "n", "d", "i", "g", "o", " ", "W", "o", "o", "l">>
      [] s = "Violet Wool" ->
           <<"V", "i", "o", "l", "e", "t", " ", "W", "o", "o", "l">>
      [] s = "Purple Wool" ->
           <<"P", "u", "r", "p", "l", "e", " ", "W", "o", "o", "l">>
      [] s = "Lapis Lazuli Block" ->
           <<"L", "a", "p", "i", "s", " ", "L", "a", "z", "u", "l", "i", " ",
             "B", "l", "o", "c", "k">>
      [] s = "lapis block" ->
           <<"l", "a", "p", "i", "s", " ", "b", "l", "o", "c", "k">>
      [] s = "Block Lapis" ->
           <<"B", "l", "o", "c", "k", " ", "L", "a", "p", "i", "s">>
      [] s = "lapis block extra" ->
           <<"l", "a", "p", "i", "s", " ", "b", "l", "o", "c", "k", " ",
             "e", "x", "t", "r", "a">>
      [] s = "ab abc" -> <<"a", "b", " ", "a", "b", "c">>
      [] s = "abc ab" -> <<"a", "b", "c", " ", "a", "b">>

\* str.startswith
StartsWith(s, prefix) ==
    LET a == Spell(s)
        b == Spell(prefix)
    IN  /\ Len(b) <= Len(a)
        /\ SubSeq(a, 1, Len(b)) = b

\* sub in s
Contains(s, sub) ==
    LET a == Spell(s)
        b == Spell(sub)
    IN  \E i \in 0 .. (Len(a) - Len(b)) : SubSeq(a, i + 1, i + Len(b)) = b

\* str.lower, for one character
LowerChar(c) ==
    CASE c = "A" -> "a" [] c = "B" -> "b" [] c = "F" -> "f" [] c = "I" -> "i"
      [] c = "L" -> "l" [] c = "P" -> "p" [] c = "Q" -> "q" [] c = "U" -> "u"
      [] c = "V" -> "v" [] c = "W" -> "w" [] c = "Z" -> "z"
      [] OTHER -> c

\* str.lower, on the characters of a text
Lower(a) == [i \in 1 .. Len(a) |-> LowerChar(a[i])]

RECURSIVE Split(_, _)
\* str.split(sep) for a separator of one character, on the characters of a
\* text: every separator ends a part, so that "" gives one empty part
Split(a, sep) ==
    LET at == {i \in 1 .. Len(a) : a[i] = sep}
    IN  IF at = {}
        THEN <<a>>
        ELSE LET k == CHOOSE i \in at : \A j \in at : i <= j
             IN  <<SubSeq(a, 1, k - 1)>> \o Split(SubSeq(a, k + 1, Len(a)), sep)

\* sub in a, on the characters of two texts
InText(sub, a) ==
    \E i \in 0 .. (Len(a) - Len(sub)) : SubSeq(a, i + 1, i + Len(sub)) = sub

\* ------------------------------------------------------------------------
\* Keyword arguments of addBlock: `given` holds the keys that were passed.
\* ------------------------------------------------------------------------
NoKw ==
    [given |-> {}, name |-> "", idStr |-> "", brightness |-> 0, opacity |-> 0,
     aka |-> "", type |-> "", mapcolor |-> <<>>, texture |-> <<>>]

\* kw.pop(key, default)
Pop(kw, key, default) == IF key \in kw.given THEN kw[key] ELSE default

\* ------------------------------------------------------------------------
\* Block
\* ------------------------------------------------------------------------
Block(blockID, blockData, blockString) ==
    [ID |-> blockID, blockData |-> blockData, stringID |-> blockString]

\* Block.__cmp__: cmp of the (ID, blockData) keys
BlockCmp(a, b) ==
    IF a.ID < b.ID THEN -1
    ELSE IF a.ID > b.ID THEN 1
    ELSE IF a.blockData < b.blockData THEN -1
    ELSE IF a.blockData > b.blockData THEN 1
    ELSE 0

\* The row of self.type that mats.type[ID] refers to.
TypeRow(M, blockID) == M.typeRows[M.type[blockID]]

\* Block.__getattr__ for the attributes read per variant and per ID
BlockName(M, b) == M.names[b.ID][b.blockData]
BlockAka(M, b) == M.aka[b.ID][b.blockData]
BlockType(M, b) == TypeRow(M, b.ID)[b.blockData]
BlockColor(M, b) == M.flatColors[b.ID][b.blockData]
BlockBrightness(M, b) == M.lightEmission[b.ID]
BlockOpacity(M, b) == M.lightAbsorption[b.ID]
BlockTexture(M, b) == M.blockTextures[b.ID]

\* ------------------------------------------------------------------------
\* MCMaterials
\* ------------------------------------------------------------------------
\* A texture argument is one (x, y) pair, spread over the six faces, or a
\* list of six pairs.
Faces(texture) ==
    IF Len(texture) = 2
    THEN [f \in 1 .. 6 |-> <<texture[1] % Uint16, texture[2] % Uint16>>]
    ELSE [f \in 1 .. 6 |-> <<texture[f][1] % Uint16, texture[f][2] % Uint16>>]

\* (tuple(color) + (255,))[:4], stored as bytes
Color4(color) ==
    LET c == color \o <<255>>
    IN  [i \in 1 .. 4 |-> c[i] % Uint8]

\* The rows of self.type are list objects: "shared" is the one row that
\* __init__ puts at every index, and a primary ID names the row that addBlock
\* made for that ID.
RowRefs == {"shared"} \cup {ToString(i) : i \in ModelIDs}

\* The fields of MCMaterials as __init__ sets them before its addBlock call.
Blank(defaultName) ==
    [defaultName |-> defaultName,
     blockTextures |-> [i \in ModelIDs |-> [d \in Variants |-> Faces(defaultTexture)]],
     names |-> [i \in ModelIDs |-> [d \in Variants |-> defaultName]],
     aka |-> [i \in ModelIDs |-> [d \in Variants |-> ""]],
     type |-> [i \in ModelIDs |-> "shared"],
     typeRows |-> [r \in RowRefs |-> [d \in Variants |-> "NORMAL"]],
     blocksByType |-> [t \in TypeTags |-> <<>>],
     allBlocks |-> <<>>,
     blocksByID |-> <<>>,
     lightEmission |-> [i \in ModelIDs |-> defaultBrightness % Uint8],
     lightAbsorption |-> [i \in ModelIDs |-> defaultOpacity % Uint8],
     flatColors |-> [i \in ModelIDs |-> [d \in Variants |-> defaultColor]],
     yamlDatas |-> <<>>,
     idStr |-> [i \in ModelIDs |-> ""]]

\* blockData or slice(None): the variants an indexed write touches
Touched(blockData) == IF blockData = 0 THEN Variants ELSE {blockData}

\* NamesAfter with the name written to the one slot [blockID][blockData]
\* whatever blockData is
NamesAfter_OneSlot(row, blockData, name) == [row EXCEPT ![blockData] = name]

\* `if blockData is 0: self.names[blockID] = [name] * 16` with its else
\* branch: the names of blockID after the call, row being them before it
NamesAfter(row, blockData, name) ==
    IF blockData = 0
    THEN [d \in Variants |-> name]
    ELSE [row EXCEPT ![blockData] = name]

\* MCMaterials.addBlock: the registry after the call
addBlock(M, blockID, blockData, kw) ==
    LET name == Pop(kw, "name", M.names[blockID][blockData])
        stringName == Pop(kw, "idStr", "")
        type_ == Pop(kw, "type", "NORMAL")
        color == Pop(kw, "mapcolor", M.flatColors[blockID][blockData])
        block == Block(blockID, blockData, stringName)
    IN  [M EXCEPT
           !.lightEmission[blockID] = Pop(kw, "brightness", defaultBrightness) % Uint8,
           !.lightAbsorption[blockID] = Pop(kw, "opacity", defaultOpacity) % Uint8,
           !.aka[blockID][blockData] = Pop(kw, "aka", ""),
           !.flatColors[blockID] =
               [d \in Variants |-> IF d \in Touched(blockData) THEN Color4(color) ELSE @[d]],
           !.blockTextures[blockID] =
               IF "texture" \in kw.given
               THEN [d \in Variants |->
                        IF d \in Touched(blockData) THEN Faces(kw.texture) ELSE @[d]]
               ELSE @,
           !.names[blockID] = NamesAfter(@, blockData, name),
           !.type[blockID] = IF blockData = 0 THEN ToString(blockID) ELSE @,
           !.typeRows =
               IF blockData = 0
               THEN [@ EXCEPT ![ToString(blockID)] = [d \in Variants |-> type_]]
               ELSE [@ EXCEPT ![M.type[blockID]][blockData] = type_],
           !.allBlocks = Append(@, block),
           !.blocksByType[type_] = Append(@, block),
           !.blocksByID = [k \in (DOMAIN @) \cup {<<blockID, blockData>>} |->
                              IF k = <<blockID, blockData>> THEN block ELSE @[k]]]

\* MCMaterials.__init__
MCMaterials(defaultName) ==
    addBlock(Blank(defaultName), 0, 0,
             [NoKw EXCEPT !.given = {"name", "texture", "opacity"},
                          !.name = "Air", !.texture = <<0, 336>>, !.opacity = 0])

\* ------------------------------------------------------------------------
\* addYamlBlocks, addYamlBlock
\* ------------------------------------------------------------------------
\* A block definition of a yaml document (a dict): `given` holds its keys.
\* data, tex_direction and tex_direction_data are dicts, kept as the sequence
\* of their items in the order .items() gives them.  An item of data is
\* [val, mapping, data]: mapping is FALSE for a value that is no dict.
NoYaml ==
    [given |-> {}, id |-> 0, name |-> "", idStr |-> "", brightness |-> 0,
     opacity |-> 0, aka |-> "", type |-> "", mapcolor |-> <<>>, texture |-> <<>>,
     tex |-> <<>>, tex_direction |-> <<>>, tex_direction_data |-> <<>>,
     data |-> <<>>]

\* defaultTex = [t // 16 for t in defaultTexture]
defaultTex == <<defaultTexture[1] \div 16, defaultTexture[2] \div 16>>

\* datakw.update(data)
Update(datakw, data) ==
    [k \in DOMAIN datakw |->
        IF k = "given" THEN datakw.given \cup data.given
        ELSE IF k \in data.given THEN data[k]
        ELSE datakw[k]]

\* [t * 16 for t in tex]
Times16(tex) == [i \in 1 .. Len(tex) |-> tex[i] * 16]

\* texDirs: the face of a direction name, counted from 1
texDirs ==
    [FORWARD |-> 6, BACKWARD |-> 5, LEFT |-> 2, RIGHT |-> 1, TOP |-> 3, BOTTOM |-> 4]

\* The body of the loop over tex_direction for one (dirname, dirtex).  The
\* inner loop of "SIDES" leaves dirname = "RIGHT", which the second `if`
\* writes once more.
SetDirection(texture, dirname, dirtex) ==
    IF dirname = "SIDES"
    THEN [texture EXCEPT ![texDirs["LEFT"]] = Times16(dirtex),
                         ![texDirs["RIGHT"]] = Times16(dirtex)]
    ELSE IF dirname \in DOMAIN texDirs
    THEN [texture EXCEPT ![texDirs[dirname]] = Times16(dirtex)]
    ELSE texture

RECURSIVE SetDirections(_, _)
\* for dirname, dirtex in datakw.get('tex_direction', {}).items()
SetDirections(texture, items) ==
    IF items = <<>>
    THEN texture
    ELSE SetDirections(SetDirection(texture, Head(items)[1], Head(items)[2]),
                       Tail(items))

\* The keyword arguments addBlock pops out of **datakw
KwOf(datakw) ==
    [k \in DOMAIN NoKw |->
        IF k = "given" THEN datakw.given \cap (DOMAIN NoKw) ELSE datakw[k]]

\* block.yaml = value, block being the Block the last addBlock call returned:
\* the one object that ends allBlocks and blocksByType[type] and stands in
\* blocksByID.
SetYaml(M, blockID, blockData, type_, value) ==
    LET block == [k \in {"ID", "blockData", "stringID", "yaml"} |->
                     IF k = "yaml" THEN value
                     ELSE M.allBlocks[Len(M.allBlocks)][k]]
    IN  [M EXCEPT !.allBlocks = [@ EXCEPT ![Len(@)] = block],
                  !.blocksByType[type_] = [@ EXCEPT ![Len(@)] = block],
                  !.blocksByID[<<blockID, blockData>>] = block]

RECURSIVE YamlDataLoop(_, _, _, _)
\* addYamlBlock: the loop `for val, data in kw.get('data', {0: {}}).items()`
\* over the items still to visit; datakw is the one of the last round ("" as
\* long as there was none).
YamlDataLoop(M, kw, items, datakw) ==
    IF items = <<>>
    THEN [mats |-> M, raised |-> FALSE, datakw |-> datakw]
    ELSE LET item == Head(items)
         IN  IF ~item.mapping
             THEN [mats |-> M, raised |-> TRUE, datakw |-> datakw]
             ELSE LET updated == Update(kw, item.data)
                      idStr == Pop(updated, "idStr", "")
                      tex == Times16(Pop(updated, "tex", defaultTex))
                      texture == SetDirections([f \in 1 .. 6 |-> tex],
                                               Pop(updated, "tex_direction", <<>>))
                      withTexture == [updated EXCEPT !.texture = texture,
                                                     !.given = @ \cup {"texture"}]
                      added == addBlock(M, kw.id, item.val, KwOf(withTexture))
                      marked == SetYaml(added, kw.id, item.val,
                                        Pop(withTexture, "type", "NORMAL"), withTexture)
                  IN  YamlDataLoop([marked EXCEPT !.idStr[kw.id] = idStr],
                                   kw, Tail(items), withTexture)

\* rot90cw: texture[:] = [texture[r] for r in rot]
rot90cw(texture) ==
    LET rot == <<5, 0, 2, 3, 4, 1>>
    IN  [f \in 1 .. 6 |-> texture[rot[f] + 1]]

\* texDirMap.get(dir, 0)
texDirMap(dir) ==
    CASE dir = "NORTH" -> 0
      [] dir = "EAST" -> 1
      [] dir = "SOUTH" -> 2
      [] dir = "WEST" -> 3
      [] OTHER -> 0

RECURSIVE Rotated(_, _)
\* for _i in range(n): rot90cw()
Rotated(texture, n) == IF n = 0 THEN texture ELSE Rotated(rot90cw(texture), n - 1)

RECURSIVE YamlRotLoop(_, _, _, _)
\* addYamlBlock: the loop `for data, dir in tex_direction_data.items()` over
\* the items still to visit; texture is the one list that every round turns
\* further.
YamlRotLoop(M, blockID, texture, items) ==
    IF items = <<>>
    THEN [mats |-> M, texture |-> texture]
    ELSE LET data == Head(items)[1]
             turned == Rotated(texture, texDirMap(Head(items)[2]))
         IN  YamlRotLoop([M EXCEPT !.blockTextures[blockID][data] = Faces(turned)],
                         blockID, turned, Tail(items))

\* MCMaterials.addYamlBlock: the registry after the call and whether the call
\* raised an exception
addYamlBlock(M, kw) ==
    IF "id" \notin kw.given
    THEN [mats |-> M, raised |-> TRUE]
    ELSE LET blockID == kw.id
             items == Pop(kw, "data", <<[val |-> 0, mapping |-> TRUE, data |-> NoYaml]>>)
             loop == YamlDataLoop(M, kw, items, "")
             tex_direction_data == Pop(kw, "tex_direction_data", <<>>)
         IN  IF loop.raised
             THEN [mats |-> loop.mats, raised |-> TRUE]
             ELSE IF tex_direction_data = <<>>
             THEN [mats |-> loop.mats, raised |-> FALSE]
             ELSE IF items = <<>>
             THEN [mats |-> loop.mats, raised |-> TRUE]
             ELSE LET last == items[Len(items)]
                      rot == YamlRotLoop(loop.mats, blockID, loop.datakw.texture,
                                         tex_direction_data)
                  IN  [mats |-> SetYaml(rot.mats, blockID, last.val,
                                        Pop(loop.datakw, "type", "NORMAL"),
                                        [loop.datakw EXCEPT !.texture = rot.texture]),
                       raised |-> FALSE]

RECURSIVE YamlBlocksLoop_NoTry(_, _)
\* YamlBlocksLoop without try and except
YamlBlocksLoop_NoTry(M, blocks) ==
    IF blocks = <<>>
    THEN [mats |-> M, raised |-> FALSE]
    ELSE LET r == addYamlBlock(M, Head(blocks))
         IN  IF r.raised
             THEN [mats |-> r.mats, raised |-> TRUE]
             ELSE YamlBlocksLoop_NoTry(r.mats, Tail(blocks))

RECURSIVE YamlBlocksLoop(_, _)
\* addYamlBlocks: the loop `for block in blockyaml['blocks']` over the blocks
\* still to visit; `except Exception` ends the round of a block that raised.
YamlBlocksLoop(M, blocks) ==
    IF blocks = <<>>
    THEN [mats |-> M, raised |-> FALSE]
    ELSE LET r == addYamlBlock(M, Head(blocks))
         IN  YamlBlocksLoop(r.mats, Tail(blocks))

\* MCMaterials.addYamlBlocks: the registry after the call and whether an
\* exception left the call
addYamlBlocks(M, blockyaml) ==
    YamlBlocksLoop([M EXCEPT !.yamlDatas = Append(@, blockyaml)], blockyaml.blocks)

\* MCMaterials.blockWithID
blockWithID(M, id, data) ==
    IF <<id, data>> \in DOMAIN M.blocksByID
    THEN M.blocksByID[<<id, data>>]
    ELSE Block(id, data, "")

\* blocksMatching: nameParts of the block v, the parts of its name followed
\* by the parts of its aka
NameParts(M, v) ==
    Split(Lower(Spell(BlockName(M, v))), " ") \o Split(Lower(Spell(BlockAka(M, v))), " ")

RECURSIVE UseParts(_, _, _)
\* blocksMatching: the loop `for v2 in nameParts` over the parts still to
\* visit; each part takes the first of spiltNames that is in it and is not
\* used yet.  acc holds i and spiltNamesUsed.
UseParts(nameParts, spiltNames, acc) ==
    IF nameParts = <<>>
    THEN acc
    ELSE LET v2 == Head(nameParts)
             fits == {j \in 1 .. Len(spiltNames) :
                         /\ InText(spiltNames[j], v2)
                         /\ \A u \in 1 .. Len(acc.spiltNamesUsed) :
                               acc.spiltNamesUsed[u] # j}
             next == IF fits = {}
                     THEN acc
                     ELSE LET j == CHOOSE x \in fits : \A y \in fits : x <= y
                          IN  [i |-> acc.i + 1,
                               spiltNamesUsed |-> Append(acc.spiltNamesUsed, j)]
         IN  UseParts(Tail(nameParts), spiltNames, next)

\* blocksMatching from `amount = len(spiltNames)` on
MatchingFor(M, spiltNames) ==
    LET amount == Len(spiltNames)
        Matches(v) ==
            UseParts(NameParts(M, v), spiltNames,
                     [i |-> 0, spiltNamesUsed |-> <<>>]).i = amount
    IN  SelectSeq(M.allBlocks, Matches)

\* MCMaterials.blocksMatching
blocksMatching(M, name) == MatchingFor(M, Split(Lower(Spell(name)), " "))

\* ------------------------------------------------------------------------
\* guessFilterTable
\* ------------------------------------------------------------------------
\* None
NoBlock == Block(-1, -1, "")

\* One step of a stable descending sort: x goes behind every element that
\* does not compare below it.
InsertReverse(s, x) ==
    LET k == Cardinality({i \in 1 .. Len(s) : BlockCmp(s[i], x) >= 0})
    IN  SubSeq(s, 1, k) \o <<x>> \o SubSeq(s, k + 1, Len(s))

RECURSIVE SortedReverse(_)
\* sorted(blocks, reverse=True), ordered by Block.__cmp__
SortedReverse(blocks) ==
    IF blocks = <<>>
    THEN <<>>
    ELSE InsertReverse(SortedReverse(SubSeq(blocks, 1, Len(blocks) - 1)),
                       blocks[Len(blocks)])

\* toByName with the blocks taken in the order of allBlocks, not sorted
toByName_LastDefined(matsTo) ==
    LET s == matsTo.allBlocks
        keys == {BlockName(matsTo, s[i]) : i \in 1 .. Len(s)}
        last(n) == CHOOSE i \in 1 .. Len(s) :
                      /\ BlockName(matsTo, s[i]) = n
                      /\ \A j \in (i + 1) .. Len(s) : BlockName(matsTo, s[j]) # n
    IN  [n \in keys |-> s[last(n)]]

\* dict(((b.name, b) for b in sorted(matsTo.allBlocks, reverse=True))):
\* of the pairs with one key, the last one stays.
toByName(matsTo) ==
    LET s == SortedReverse(matsTo.allBlocks)
        keys == {BlockName(matsTo, s[i]) : i \in 1 .. Len(s)}
        last(n) == CHOOSE i \in 1 .. Len(s) :
                      /\ BlockName(matsTo, s[i]) = n
                      /\ \A j \in (i + 1) .. Len(s) : BlockName(matsTo, s[j]) # n
    IN  [n \in keys |-> s[last(n)]]

\* dict.get(key), None when the key is missing
DictGet(d, key) == IF key \in DOMAIN d THEN d[key] ELSE NoBlock

\* for b in blocks: if <test>: block = b; break -- hits holds the positions
\* of the blocks that pass the test.
FirstWhere(blocks, hits) ==
    IF hits # {}
    THEN blocks[CHOOSE i \in hits : \A j \in hits : i <= j]
    ELSE NoBlock

\* GuessBlock with the aka loop ahead of the `in b.name` loop
GuessBlock_AkaBeforeName(matsFrom, matsTo, fromBlock) ==
    LET fromName == BlockName(matsFrom, fromBlock)
        toBlocks == matsTo.allBlocks
        byName == toByName(matsTo)
        exact == DictGet(byName, fromName)
        starts == FirstWhere(toBlocks,
                     {i \in 1 .. Len(toBlocks) :
                         StartsWith(BlockName(matsTo, toBlocks[i]), fromName)})
        inName == FirstWhere(toBlocks,
                     {i \in 1 .. Len(toBlocks) :
                         Contains(BlockName(matsTo, toBlocks[i]), fromName)})
        inAka == FirstWhere(toBlocks,
                     {i \in 1 .. Len(toBlocks) :
                         Contains(BlockAka(matsTo, toBlocks[i]), fromName)})
    IN  IF exact # NoBlock THEN exact
        ELSE IF starts # NoBlock THEN starts
        ELSE IF inAka # NoBlock THEN inAka
        ELSE IF inName # NoBlock THEN inName
        ELSE IF fromName = "Indigo Wool" THEN DictGet(byName, "Purple Wool")
        ELSE IF fromName = "Violet Wool" THEN DictGet(byName, "Purple Wool")
        ELSE NoBlock

\* GuessBlock without the elif branch for "Violet Wool"
GuessBlock_NoViolet(matsFrom, matsTo, fromBlock) ==
    LET fromName == BlockName(matsFrom, fromBlock)
        toBlocks == matsTo.allBlocks
        byName == toByName(matsTo)
        exact == DictGet(byName, fromName)
        starts == FirstWhere(toBlocks,
                     {i \in 1 .. Len(toBlocks) :
                         StartsWith(BlockName(matsTo, toBlocks[i]), fromName)})
        inName == FirstWhere(toBlocks,
                     {i \in 1 .. Len(toBlocks) :
                         Contains(BlockName(matsTo, toBlocks[i]), fromName)})
        inAka == FirstWhere(toBlocks,
                     {i \in 1 .. Len(toBlocks) :
                         Contains(BlockAka(matsTo, toBlocks[i]), fromName)})
    IN  IF exact # NoBlock THEN exact
        ELSE IF starts # NoBlock THEN starts
        ELSE IF inName # NoBlock THEN inName
        ELSE IF inAka # NoBlock THEN inAka
        ELSE IF fromName = "Indigo Wool" THEN DictGet(byName, "Purple Wool")
        ELSE NoBlock

\* The body of guessFilterTable's loop up to `if block:`: the block of matsTo
\* found for fromBlock, or None.
GuessBlock(matsFrom, matsTo, fromBlock) ==
    LET fromName == BlockName(matsFrom, fromBlock)
        toBlocks == matsTo.allBlocks
        byName == toByName(matsTo)
        exact == DictGet(byName, fromName)
        starts == FirstWhere(toBlocks,
                     {i \in 1 .. Len(toBlocks) :
                         StartsWith(BlockName(matsTo, toBlocks[i]), fromName)})
        inName == FirstWhere(toBlocks,
                     {i \in 1 .. Len(toBlocks) :
                         Contains(BlockName(matsTo, toBlocks[i]), fromName)})
        inAka == FirstWhere(toBlocks,
                     {i \in 1 .. Len(toBlocks) :
                         Contains(BlockAka(matsTo, toBlocks[i]), fromName)})
    IN  IF exact # NoBlock THEN exact
        ELSE IF starts # NoBlock THEN starts
        ELSE IF inName # NoBlock THEN inName
        ELSE IF inAka # NoBlock THEN inAka
        ELSE IF fromName = "Indigo Wool" THEN DictGet(byName, "Purple Wool")
        ELSE IF fromName = "Violet Wool" THEN DictGet(byName, "Purple Wool")
        ELSE NoBlock

BlockKey(b) == <<b.ID, b.blockData>>

RECURSIVE GuessLoop_KeepIdentical(_, _, _, _)
\* GuessLoop without the test `if block != fromBlock`
GuessLoop_KeepIdentical(matsFrom, matsTo, todo, acc) ==
    IF todo = <<>>
    THEN acc
    ELSE LET fromBlock == Head(todo)
             block == GuessBlock(matsFrom, matsTo, fromBlock)
             next == IF block # NoBlock
                     THEN [acc EXCEPT !.filters =
                              Append(@, <<BlockKey(fromBlock), BlockKey(block)>>)]
                     ELSE [acc EXCEPT !.unavailable = Append(@, BlockKey(fromBlock))]
         IN  GuessLoop_KeepIdentical(matsFrom, matsTo, Tail(todo), next)

RECURSIVE GuessLoop(_, _, _, _)
\* The loop of guessFilterTable over the blocks still to visit; acc holds the
\* two lists built so far.
GuessLoop(matsFrom, matsTo, todo, acc) ==
    IF todo = <<>>
    THEN acc
    ELSE LET fromBlock == Head(todo)
             block == GuessBlock(matsFrom, matsTo, fromBlock)
             next == IF block # NoBlock
                     THEN IF BlockCmp(block, fromBlock) # 0
                          THEN [acc EXCEPT !.filters =
                                   Append(@, <<BlockKey(fromBlock), BlockKey(block)>>)]
                          ELSE acc
                     ELSE [acc EXCEPT !.unavailable = Append(@, BlockKey(fromBlock))]
         IN  GuessLoop(matsFrom, matsTo, Tail(todo), next)

guessFilterTable(matsFrom, matsTo) ==
    GuessLoop(matsFrom, matsTo, matsFrom.allBlocks,
              [filters |-> <<>>, unavailable |-> <<>>])

\* ------------------------------------------------------------------------
\* _filterTable, filterConversion
\* ------------------------------------------------------------------------
\* A value as the uint8 table stores it
U8Pair(t) == <<t[1] % Uint8, t[2] % Uint8>>

\* table[:] = _indices
IndexTable == [i \in ModelIDs |-> [d \in Variants |-> U8Pair(<<i, d>>)]]

\* table[key] = value, after `if key[1] == 0: key = key[0]`
TableWrite(table, key, value) ==
    IF key[2] = 0
    THEN [table EXCEPT ![key[1]] = [d \in Variants |-> U8Pair(value)]]
    ELSE [table EXCEPT ![key[1]][key[2]] = U8Pair(value)]

RECURSIVE WriteUnavailable(_, _, _)
WriteUnavailable(table, unavailable, default) ==
    IF unavailable = <<>>
    THEN table
    ELSE WriteUnavailable(TableWrite(table, Head(unavailable), default),
                          Tail(unavailable), default)

RECURSIVE WriteFilters(_, _)
WriteFilters(table, filters) ==
    IF filters = <<>>
    THEN table
    ELSE WriteFilters(TableWrite(table, Head(filters)[1], Head(filters)[2]),
                      Tail(filters))

_filterTable(filters, unavailable, default) ==
    WriteFilters(WriteUnavailable(IndexTable, unavailable, default), filters)

\* Function objects: obj tells two closures of filterConversion apart.
nullConversion == [name |-> "nullConversion", table |-> <<>>, obj |-> 0]

filterConversion(table, obj) == [name |-> "convert", table |-> table, obj |-> obj]

\* func(blocks, data) for one block
Call(func, blocks, data) ==
    IF func.name = "nullConversion"
    THEN <<blocks, data>>
    ELSE func.table[blocks][data]

\* ------------------------------------------------------------------------
\* Operations
\* ------------------------------------------------------------------------
Pairs == Mats \X Mats

\* AddBlock that empties _conversionFuncs as well
AddBlock_EmptiesFuncs(m, blockID, blockData, kw) ==
    /\ mats' = [mats EXCEPT ![m] = addBlock(@, blockID, blockData, kw)]
    /\ lastCall' = [op |-> "addBlock", m |-> m, blockID |-> blockID,
                    blockData |-> blockData, kw |-> kw]
    /\ _conversionFuncs' = <<>>
    /\ UNCHANGED <<funcsMade, guessRuns, threads>>

\* mats[m].addBlock(blockID, blockData, **kw)
AddBlock(m, blockID, blockData, kw) ==
    /\ mats' = [mats EXCEPT ![m] = addBlock(@, blockID, blockData, kw)]
    /\ lastCall' = [op |-> "addBlock", m |-> m, blockID |-> blockID,
                    blockData |-> blockData, kw |-> kw]
    /\ UNCHANGED <<_conversionFuncs, funcsMade, guessRuns, threads>>

\* IsSame with the test left out
IsSame_Never(destMats, sourceMats) == FALSE

\* destMats is sourceMats: the names stand for the registry objects
IsSame(destMats, sourceMats) == destMats = sourceMats

\* CacheHit with the lookup left out
CacheHit_Never(key) == FALSE

\* func = _conversionFuncs.get(key) is a function (`if func:`)
CacheHit(key) == key \in DOMAIN _conversionFuncs

\* conversionFunc(destMats, sourceMats)
ConversionFunc(destMats, sourceMats) ==
    LET key == <<destMats, sourceMats>>
        guess == guessFilterTable(mats[sourceMats], mats[destMats])
        table == _filterTable(guess.filters, guess.unavailable, FallbackBlock)
        func == filterConversion(table, funcsMade + 1)
    IN  IF IsSame(destMats, sourceMats)
        THEN /\ lastCall' = [op |-> "conversionFunc", destMats |-> destMats,
                             sourceMats |-> sourceMats, result |-> nullConversion,
                             built |-> FALSE]
             /\ UNCHANGED <<mats, _conversionFuncs, funcsMade, guessRuns, threads>>
        ELSE IF CacheHit(key)
        THEN /\ lastCall' = [op |-> "conversionFunc", destMats |-> destMats,
                             sourceMats |-> sourceMats, result |-> _conversionFuncs[key],
                             built |-> FALSE]
             /\ UNCHANGED <<mats, _conversionFuncs, funcsMade, guessRuns, threads>>
        ELSE /\ guessRuns' = [guessRuns EXCEPT ![key] = IF @ < MaxRuns THEN @ + 1 ELSE @]
             /\ funcsMade' = funcsMade + 1
             /\ _conversionFuncs' =
                    [k \in (DOMAIN _conversionFuncs) \cup {key} |->
                        IF k = key THEN func ELSE _conversionFuncs[k]]
             /\ lastCall' = [op |-> "conversionFunc", destMats |-> destMats,
                             sourceMats |-> sourceMats, result |-> func, built |-> TRUE]
             /\ UNCHANGED <<mats, threads>>

\* conversionFunc(destMats, sourceMats) as a thread runs it. Nothing in the
\* function holds a lock, so another thread may run between the lookup in
\* _conversionFuncs, the making of the function and the store into
\* _conversionFuncs. threads[t] is the frame of thread t: where it is in
\* conversionFunc, its arguments, its local `func` and what it returned.
Threads == 1 .. MaxThreads

NoFunc == [name |-> "None", table |-> <<>>, obj |-> 0]

NotCalled == [pc |-> "not called", destMats |-> "", sourceMats |-> "",
              func |-> NoFunc, result |-> NoFunc]

\* from the call to `if func:`: the thread returns or goes on to make the
\* function
ThreadLookup(t, destMats, sourceMats) ==
    LET key == <<destMats, sourceMats>>
        frame == [NotCalled EXCEPT !.destMats = destMats, !.sourceMats = sourceMats]
    IN  /\ threads[t].pc = "not called"
        /\ threads' = [threads EXCEPT ![t] =
              IF IsSame(destMats, sourceMats)
              THEN [frame EXCEPT !.pc = "returned", !.result = nullConversion]
              ELSE IF CacheHit(key)
              THEN [frame EXCEPT !.pc = "returned", !.func = _conversionFuncs[key],
                                 !.result = _conversionFuncs[key]]
              ELSE [frame EXCEPT !.pc = "guess"]]
        /\ UNCHANGED <<mats, _conversionFuncs, funcsMade, guessRuns, lastCall>>

\* from guessFilterTable to func = filterConversion(table)
ThreadGuess(t) ==
    LET frame == threads[t]
        key == <<frame.destMats, frame.sourceMats>>
        guess == guessFilterTable(mats[frame.sourceMats], mats[frame.destMats])
        table == _filterTable(guess.filters, guess.unavailable, FallbackBlock)
        func == filterConversion(table, funcsMade + 1)
    IN  /\ frame.pc = "guess"
        /\ guessRuns' = [guessRuns EXCEPT ![key] = IF @ < MaxRuns THEN @ + 1 ELSE @]
        /\ funcsMade' = funcsMade + 1
        /\ threads' = [threads EXCEPT ![t] = [frame EXCEPT !.pc = "store", !.func = func]]
        /\ UNCHANGED <<mats, _conversionFuncs, lastCall>>

\* _conversionFuncs[(destMats, sourceMats)] = func; return func
ThreadStore(t) ==
    LET frame == threads[t]
        key == <<frame.destMats, frame.sourceMats>>
    IN  /\ frame.pc = "store"
        /\ _conversionFuncs' =
               [k \in (DOMAIN _conversionFuncs) \cup {key} |->
                   IF k = key THEN frame.func ELSE _conversionFuncs[k]]
        /\ threads' = [threads EXCEPT ![t] =
                          [frame EXCEPT !.pc = "returned", !.result = frame.func]]
        /\ UNCHANGED <<mats, funcsMade, guessRuns, lastCall>>

\* guessFilterTable(matsFrom, matsTo), called on its own
GuessFilterTable(matsFrom, matsTo) ==
    LET guess == guessFilterTable(mats[matsFrom], mats[matsTo])
    IN  /\ lastCall' = [op |-> "guessFilterTable", matsFrom |-> matsFrom,
                        matsTo |-> matsTo, filters |-> guess.filters,
                        unavailable |-> guess.unavailable]
        /\ UNCHANGED <<mats, _conversionFuncs, funcsMade, guessRuns, threads>>

\* mats[m].blocksMatching(name)
BlocksMatching(m, name) ==
    /\ lastCall' = [op |-> "blocksMatching", m |-> m, name |-> name,
                    result |-> blocksMatching(mats[m], name)]
    /\ UNCHANGED <<mats, _conversionFuncs, funcsMade, guessRuns, threads>>

\* mats[m].addYamlBlocks(blockyaml)
AddYamlBlocks(m, blockyaml) ==
    LET r == addYamlBlocks(mats[m], blockyaml)
    IN  /\ mats' = [mats EXCEPT ![m] = r.mats]
        /\ lastCall' = [op |-> "addYamlBlocks", m |-> m, blockyaml |-> blockyaml,
                        raised |-> r.raised]
        /\ UNCHANGED <<_conversionFuncs, funcsMade, guessRuns, threads>>

\* rot90cw(), called on the list `texture` of addYamlBlock: lastCall holds
\* the list, what it was at first and the number of calls.
Rot90cw ==
    /\ lastCall' = [lastCall EXCEPT !.op = "rot90cw", !.texture = rot90cw(@),
                                    !.turns = @ + 1]
    /\ UNCHANGED <<mats, _conversionFuncs, funcsMade, guessRuns, threads>>

\* _filterTable(filters, unavailable, default), called on its own
FilterTable(filters, unavailable, default) ==
    /\ lastCall' = [op |-> "_filterTable", filters |-> filters,
                    unavailable |-> unavailable, default |-> default,
                    result |-> _filterTable(filters, unavailable, default)]
    /\ UNCHANGED <<mats, _conversionFuncs, funcsMade, guessRuns, threads>>

\* ------------------------------------------------------------------------
\* Inputs
\* ------------------------------------------------------------------------
KwName(n) == [NoKw EXCEPT !.given = {"name"}, !.name = n]

\* Arguments of addBlock in Spec
ConvIDs == {1, 257}
ConvKws == {KwName("Ab"), KwName("Zz")}

\* Arguments of addBlock in SpecLoad
LoadIDs == {1, 257}
LoadData == {0, 1}
LoadKws ==
    {KwName("Ab"), KwName("Abc"),
     [NoKw EXCEPT !.given = {"name", "aka"}, !.name = "Zz", !.aka = "cAb"]}

\* Arguments of addBlock in SpecReg
RegIDs == {1, 257}
RegData == {0, 3}
SixFaces == <<<<16, 0>>, <<32, 0>>, <<48, 0>>, <<64, 0>>, <<80, 0>>, <<96, 0>>>>
RegKws ==
    {NoKw, KwName("Ab"), KwName("Zz"),
     [NoKw EXCEPT !.given = {"aka"}, !.aka = "cAb"],
     [NoKw EXCEPT !.given = {"type"}, !.type = "STAIRS"],
     [NoKw EXCEPT !.given = {"brightness", "opacity"}, !.brightness = 7, !.opacity = 3],
     [NoKw EXCEPT !.given = {"mapcolor"}, !.mapcolor = <<10, 20, 30>>],
     [NoKw EXCEPT !.given = {"mapcolor", "texture"},
                  !.mapcolor = <<1, 2, 3, 4>>, !.texture = <<16, 32>>],
     [NoKw EXCEPT !.given = {"name", "aka", "type"},
                  !.name = "Abc", !.aka = "Qq", !.type = "SLAB"],
     [NoKw EXCEPT !.given = {"texture", "idStr"}, !.texture = SixFaces, !.idStr = "stone"]}

\* Arguments <<blockID, blockData, kw>> of addBlock in SpecGuess, for the
\* two registries
KwNameAka(n, a) == [NoKw EXCEPT !.given = {"name", "aka"}, !.name = n, !.aka = a]
GuessArgs(m) ==
    IF m = "Alpha"
    THEN {<<1, 0, KwName("Ab")>>, <<1, 1, KwName("Ab")>>,
          <<1, 1, KwName("Violet Wool")>>, <<257, 0, KwName("Indigo Wool")>>}
    ELSE {<<1, 0, KwName("Ab")>>, <<257, 0, KwName("Ab")>>,
          <<1, 1, KwNameAka("Abc", "Violet Wool")>>, <<257, 0, KwName("cAb")>>,
          <<1, 1, KwNameAka("Zz", "cAb")>>, <<257, 1, KwName("Purple Wool")>>,
          <<1, 1, KwName("Purple Wool")>>}
GuessMax(m) == IF m = "Alpha" THEN MaxFromBlocks ELSE MaxToBlocks

\* Arguments <<blockID, blockData, kw>> of addBlock and the queries of
\* blocksMatching in SpecMatch
MatchArgs ==
    {<<1, 0, KwName("Lapis Lazuli Block")>>, <<257, 0, KwNameAka("Abc", "Ab")>>,
     <<1, 3, KwName("Ab")>>, <<257, 0, KwNameAka("Ab", "Abc")>>}
MatchQueries ==
    {"lapis block", "Block Lapis", "lapis block extra", "Ab", "ab abc", "abc ab"}

\* The block definitions of the yaml documents of SpecYaml: two that are
\* well formed, one without 'id', one whose second data value is no dict,
\* and one with textures by direction and turned variants.
YamlItem(val, data) == [val |-> val, mapping |-> TRUE, data |-> data]
YamlBadItem(val) == [val |-> val, mapping |-> FALSE, data |-> NoYaml]
YamlPlain == [NoYaml EXCEPT !.given = {"id", "name"}, !.id = 1, !.name = "Ab"]
YamlVariants ==
    [NoYaml EXCEPT !.given = {"id", "name", "type", "idStr", "data"},
                   !.id = 257, !.name = "Zz", !.type = "STAIRS", !.idStr = "stone",
                   !.data = <<YamlItem(0, NoYaml),
                              YamlItem(3, [NoYaml EXCEPT !.given = {"name"},
                                                         !.name = "Abc"])>>]
YamlNoId == [NoYaml EXCEPT !.given = {"name"}, !.name = "Qq"]
YamlBadData ==
    [NoYaml EXCEPT !.given = {"id", "name", "data"}, !.id = 1, !.name = "Qq",
                   !.data = <<YamlItem(0, NoYaml), YamlBadItem(3)>>]
YamlTurned ==
    [NoYaml EXCEPT !.given = {"id", "tex", "tex_direction", "tex_direction_data"},
                   !.id = 1, !.tex = <<1, 2>>,
                   !.tex_direction = <<<<"SIDES", <<3, 4>>>>, <<"TOP", <<5, 6>>>>>>,
                   !.tex_direction_data = <<<<1, "EAST">>, <<3, "WEST">>>>]
YamlRecords == {YamlPlain, YamlVariants, YamlNoId, YamlBadData, YamlTurned}

\* The textures of SpecRot: six faces, each one of two tiles
RotTiles == {<<16, 0>>, <<32, 0>>}

\* Arguments of _filterTable in SpecTable
TableKeys == {<<1, 0>>, <<1, 3>>, <<257, 0>>}
TableTargets == {<<1, 1>>, <<35, 2>>, <<257, 0>>}
TableDefaults == {<<0, 0>>, FallbackBlock}

\* The sequences over S of length at most n
SeqsUpTo(S, n) == UNION {[1 .. k -> S] : k \in 0 .. n}

\* ------------------------------------------------------------------------
\* Specifications
\* ------------------------------------------------------------------------
Init ==
    /\ mats = [m \in Mats |-> MCMaterials(DefaultNameOf(m))]
    /\ _conversionFuncs = <<>>
    /\ funcsMade = 0
    /\ guessRuns = [k \in Pairs |-> 0]
    /\ threads = [t \in Threads |-> NotCalled]
    /\ lastCall = [op |-> "init"]

AnyConversionFunc ==
    \E destMats \in Mats, sourceMats \in Mats : ConversionFunc(destMats, sourceMats)

ConvAddBlock ==
    \E m \in Mats, blockID \in ConvIDs, kw \in ConvKws :
        /\ Len(mats[m].allBlocks) < MaxBlocks
        /\ AddBlock(m, blockID, 0, kw)

\* Registries are filled and converted, in any order.
Next == ConvAddBlock \/ AnyConversionFunc

Spec == Init /\ [][Next]_vars

LoadAddBlock ==
    \E m \in Mats, blockID \in LoadIDs, blockData \in LoadData, kw \in LoadKws :
        /\ lastCall.op # "conversionFunc"
        /\ Len(mats["Alpha"].allBlocks) + Len(mats["Pocket"].allBlocks) < MaxLoadBlocks
        /\ AddBlock(m, blockID, blockData, kw)

\* The registries are filled first and converted afterwards.
NextLoad == LoadAddBlock \/ AnyConversionFunc

SpecLoad == Init /\ [][NextLoad]_vars

RegAddBlock ==
    \E blockID \in RegIDs, blockData \in RegData, kw \in RegKws :
        /\ Len(mats["Alpha"].allBlocks) < MaxRegBlocks
        /\ AddBlock("Alpha", blockID, blockData, kw)

\* One registry is filled.
NextReg == RegAddBlock

SpecReg == Init /\ [][NextReg]_vars

TableFilterTable ==
    \E filters \in SeqsUpTo(TableKeys \X TableTargets, MaxEntries),
       unavailable \in SeqsUpTo(TableKeys, MaxEntries),
       default \in TableDefaults :
        /\ lastCall.op = "init"
        /\ FilterTable(filters, unavailable, default)

\* _filterTable is called once, with lists of the caller's making.
NextTable == TableFilterTable

SpecTable == Init /\ [][NextTable]_vars

GuessAddBlock ==
    \E m \in Mats :
        \E a \in GuessArgs(m) :
            /\ lastCall.op # "guessFilterTable"
            /\ Len(mats[m].allBlocks) < GuessMax(m)
            /\ AddBlock(m, a[1], a[2], a[3])

GuessCall ==
    \E matsFrom \in Mats, matsTo \in Mats :
        /\ matsFrom # matsTo
        /\ lastCall.op # "guessFilterTable"
        /\ GuessFilterTable(matsFrom, matsTo)

\* Two registries are filled and guessFilterTable is called once, with one
\* of them as the source.
NextGuess == GuessAddBlock \/ GuessCall

SpecGuess == Init /\ [][NextGuess]_vars

MatchAddBlock ==
    \E a \in MatchArgs :
        /\ lastCall.op # "blocksMatching"
        /\ Len(mats["Alpha"].allBlocks) < MaxMatchBlocks
        /\ AddBlock("Alpha", a[1], a[2], a[3])

MatchCall ==
    \E name \in MatchQueries :
        /\ lastCall.op # "blocksMatching"
        /\ BlocksMatching("Alpha", name)

\* One registry is filled and then searched once.
NextMatch == MatchAddBlock \/ MatchCall

SpecMatch == Init /\ [][NextMatch]_vars

YamlCall ==
    \E blocks \in SeqsUpTo(YamlRecords, MaxYamlBlocks) :
        /\ lastCall.op = "init"
        /\ AddYamlBlocks("Alpha", [blocks |-> blocks])

\* One yaml document is loaded into a new registry.
NextYaml == YamlCall

SpecYaml == Init /\ [][NextYaml]_vars

\* addYamlBlock has made a texture list of six faces.
InitRot ==
    /\ mats = [m \in Mats |-> MCMaterials(DefaultNameOf(m))]
    /\ _conversionFuncs = <<>>
    /\ funcsMade = 0
    /\ guessRuns = [k \in Pairs |-> 0]
    /\ threads = [t \in Threads |-> NotCalled]
    /\ \E texture \in [1 .. 6 -> RotTiles] :
          lastCall = [op |-> "texture", texture |-> texture, start |-> texture,
                      turns |-> 0]

RotCall == lastCall.turns < MaxTurns /\ Rot90cw

\* rot90cw is called on one texture list, again and again.
NextRot == RotCall

SpecRot == InitRot /\ [][NextRot]_vars

ThreadAddBlock ==
    \E m \in Mats, blockID \in ConvIDs, kw \in ConvKws :
        /\ \A t \in Threads : threads[t].pc = "not called"
        /\ Len(mats[m].allBlocks) < MaxThreadBlocks
        /\ AddBlock(m, blockID, 0, kw)

ThreadLookupAny ==
    \E t \in Threads, destMats \in Mats, sourceMats \in Mats :
        ThreadLookup(t, destMats, sourceMats)

ThreadGuessAny == \E t \in Threads : ThreadGuess(t)

ThreadStoreAny == \E t \in Threads : ThreadStore(t)

\* The registries are filled by one thread; then every thread calls
\* conversionFunc once, and the threads take their steps in any order.
NextThreads == ThreadAddBlock \/ ThreadLookupAny \/ ThreadGuessAny \/ ThreadStoreAny

SpecThreads == Init /\ [][NextThreads]_vars

\* ------------------------------------------------------------------------
\* Properties of _filterTable (SpecTable)
\* ------------------------------------------------------------------------
\* The convert function filterConversion makes of the table last built
LastTableFunc == filterConversion(lastCall.result, 1)

\* C1: the table built from empty filters and unavailable lists, whatever the
\* fallback, makes convert return (p, v) for every identifier (p, v),
\* primary IDs from 256 on included.
C1_EmptyListsGiveIdentity ==
    (/\ lastCall.op = "_filterTable"
     /\ lastCall.filters = <<>>
     /\ lastCall.unavailable = <<>>)
    => \A p \in ModelIDs, v \in Variants : Call(LastTableFunc, p, v) = <<p, v>>

\* The targets, as the table stores them, of the entries of the last
\* _filterTable call whose source is key
EntryTargets(key) ==
    {U8Pair(lastCall.filters[i][2]) :
        i \in {j \in 1 .. Len(lastCall.filters) : lastCall.filters[j][1] = key}}
    \cup {U8Pair(lastCall.default) :
        i \in {j \in 1 .. Len(lastCall.unavailable) : lastCall.unavailable[j] = key}}

\* C4: a variant with an entry of its own (variantID # 0) keeps the mapping of
\* such an entry wherever the entries stand in the lists, and a variant
\* without one gets the mapping of a variant-0 entry of its primary ID, if
\* there is one.  Mappings are compared as the table stores them.
C4_SpecificEntryWinsInAnyOrder ==
    lastCall.op = "_filterTable"
    => \A p \in ModelIDs, v \in Variants \ {0} :
          /\ EntryTargets(<<p, v>>) # {}
                => lastCall.result[p][v] \in EntryTargets(<<p, v>>)
          /\ (EntryTargets(<<p, v>>) = {} /\ EntryTargets(<<p, 0>>) # {})
                => lastCall.result[p][v] \in EntryTargets(<<p, 0>>)

\* ------------------------------------------------------------------------
\* Properties of conversionFunc on filled registries (SpecLoad)
\* ------------------------------------------------------------------------
\* The last call was a conversionFunc call that ran guessFilterTable and built
\* a table; the registries are as that call found them.
LastCallBuilt == lastCall.op = "conversionFunc" /\ lastCall.built

LastGuess == guessFilterTable(mats[lastCall.sourceMats], mats[lastCall.destMats])

\* C2: the function conversionFunc returns converts every source block that
\* guessFilterTable listed as unavailable to the fallback (35, 0).
C2_UnavailableGoesToFallback ==
    LastCallBuilt
    => \A i \in 1 .. Len(LastGuess.unavailable) :
          Call(lastCall.result, LastGuess.unavailable[i][1], LastGuess.unavailable[i][2])
             = FallbackBlock

\* C3: the function conversionFunc returns converts every source block for
\* which guessFilterTable found a block of the destination to the identifier
\* of that block.  Stated for source and destination identifiers that fit a
\* byte, which the uint8 table can hold.
C3_MatchedGoesToItsMatch ==
    LastCallBuilt
    => \A i \in 1 .. Len(mats[lastCall.sourceMats].allBlocks) :
          LET fromBlock == mats[lastCall.sourceMats].allBlocks[i]
              block == GuessBlock(mats[lastCall.sourceMats], mats[lastCall.destMats],
                                  fromBlock)
          IN  (block # NoBlock /\ fromBlock.ID < Uint8 /\ block.ID < Uint8)
                 => Call(lastCall.result, fromBlock.ID, fromBlock.blockData)
                       = BlockKey(block)

\* The names of the known blocks of registry m are pairwise different.
UniqueNames(m) ==
    \A i, j \in 1 .. Len(mats[m].allBlocks) :
        i # j => BlockName(mats[m], mats[m].allBlocks[i])
                    # BlockName(mats[m], mats[m].allBlocks[j])

\* Every known block of registry a has a block of the same name in b.
AllExact(a, b) ==
    \A i \in 1 .. Len(mats[a].allBlocks) :
        BlockName(mats[a], mats[a].allBlocks[i]) \in DOMAIN toByName(mats[b])

\* Both directions between a and b are cached and a's blocks all have an
\* exact match in b, names being unique on both sides.
RoundTripCase(a, b) ==
    /\ a # b
    /\ <<b, a>> \in DOMAIN _conversionFuncs
    /\ <<a, b>> \in DOMAIN _conversionFuncs
    /\ UniqueNames(a)
    /\ UniqueNames(b)
    /\ AllExact(a, b)

\* C5: with unique names and an exact match in B for every known block of A,
\* conversionFunc(B, A) followed by conversionFunc(A, B) gives every known
\* identifier of A back.
C5_RoundTrip ==
    \A a \in Mats, b \in Mats :
        RoundTripCase(a, b)
        => \A i \in 1 .. Len(mats[a].allBlocks) :
              LET blk == mats[a].allBlocks[i]
                  there == Call(_conversionFuncs[<<b, a>>], blk.ID, blk.blockData)
                  back == Call(_conversionFuncs[<<a, b>>], there[1], there[2])
              IN  back = BlockKey(blk)

\* ------------------------------------------------------------------------
\* Properties of the conversion cache (Spec)
\* ------------------------------------------------------------------------
\* C6: a conversionFunc call with one registry as destination and source
\* returns a function that is the identity on every identifier, runs
\* guessFilterTable for no pair and leaves the cache as it is.
C6_SameRegistryIsIdentity ==
    [][\A r \in Mats :
          ConversionFunc(r, r)
          => /\ \A p \in ModelIDs, v \in Variants : Call(lastCall'.result, p, v) = <<p, v>>
             /\ guessRuns' = guessRuns
             /\ funcsMade' = funcsMade
             /\ _conversionFuncs' = _conversionFuncs]_vars

\* A registry with a block whose ID does not fit a byte was converted to
\* itself while the cache held a function.
C6_Witness ==
    /\ lastCall.op = "conversionFunc"
    /\ lastCall.destMats = lastCall.sourceMats
    /\ lastCall.result = nullConversion
    /\ DOMAIN _conversionFuncs # {}
    /\ \E i \in 1 .. Len(mats[lastCall.destMats].allBlocks) :
          mats[lastCall.destMats].allBlocks[i].ID >= Uint8

\* C7: guessFilterTable and the table build run once per ordered pair of
\* different registries, at the first request for it; a later request
\* returns the function object the first one stored; a request changes
\* nothing of any other pair, the reversed pair included, which has a
\* function object of its own.
C7_BuiltOncePerOrderedPair ==
    [][/\ \A k \in DOMAIN _conversionFuncs :
             k \in DOMAIN _conversionFuncs' /\ _conversionFuncs'[k] = _conversionFuncs[k]
       /\ \A destMats \in Mats, sourceMats \in Mats :
             (destMats # sourceMats /\ ConversionFunc(destMats, sourceMats))
             => LET key == <<destMats, sourceMats>>
                    rev == <<sourceMats, destMats>>
                IN  /\ lastCall'.built = (key \notin DOMAIN _conversionFuncs)
                    /\ guessRuns[key] = (IF key \in DOMAIN _conversionFuncs THEN 1 ELSE 0)
                    /\ guessRuns'[key] = 1
                    /\ \A k \in Pairs \ {key} : guessRuns'[k] = guessRuns[k]
                    /\ DOMAIN _conversionFuncs' = (DOMAIN _conversionFuncs) \cup {key}
                    /\ lastCall'.result = _conversionFuncs'[key]
                    /\ rev \in DOMAIN _conversionFuncs'
                          => _conversionFuncs'[rev].obj # lastCall'.result.obj]_vars

\* Both directions between two registries are cached, the functions differ,
\* and the last call got one of them from the cache.
C7_Witness ==
    /\ lastCall.op = "conversionFunc"
    /\ lastCall.destMats # lastCall.sourceMats
    /\ ~lastCall.built
    /\ <<lastCall.sourceMats, lastCall.destMats>> \in DOMAIN _conversionFuncs
    /\ lastCall.result = _conversionFuncs[<<lastCall.destMats, lastCall.sourceMats>>]
    /\ lastCall.result.table
          # _conversionFuncs[<<lastCall.sourceMats, lastCall.destMats>>].table
    /\ guessRuns[<<lastCall.destMats, lastCall.sourceMats>>] = 1

\* ------------------------------------------------------------------------
\* Properties of addBlock (SpecReg)
\* ------------------------------------------------------------------------
\* The display name a Block of registry M resolves for (p, v)
NameOf(M, p, v) == BlockName(M, Block(p, v, ""))

\* C8: after addBlock(p, 0, name=X) followed by addBlock(p, v, name=Y) with
\* v # 0, the name of (p, v) is Y and the name of every other variant of p
\* is X.
C8_VariantOverridesFamilyName ==
    [][(/\ lastCall.op = "addBlock"
        /\ lastCall'.op = "addBlock"
        /\ lastCall.blockData = 0
        /\ "name" \in lastCall.kw.given
        /\ lastCall'.m = lastCall.m
        /\ lastCall'.blockID = lastCall.blockID
        /\ lastCall'.blockData # 0
        /\ "name" \in lastCall'.kw.given)
       => LET M == mats'[lastCall'.m]
              p == lastCall'.blockID
          IN  \A d \in Variants :
                 NameOf(M, p, d) = IF d = lastCall'.blockData
                                   THEN lastCall'.kw.name
                                   ELSE lastCall.kw.name]_vars

\* addBlock(257, 0, name="Ab") was followed by addBlock(257, 3, name="Zz").
C8_Witness ==
    /\ lastCall.op = "addBlock"
    /\ lastCall.blockID = 257
    /\ lastCall.blockData = 3
    /\ lastCall.kw = KwName("Zz")
    /\ Len(mats[lastCall.m].allBlocks) = 3
    /\ BlockKey(mats[lastCall.m].allBlocks[2]) = <<257, 0>>
    /\ NameOf(mats[lastCall.m], 257, 0) = "Ab"
    /\ NameOf(mats[lastCall.m], 257, 3) = "Zz"

\* C9: an addBlock call leaves every attribute that it does not pass (name,
\* aka, type, brightness, opacity, mapcolor, texture) of the identifier it is
\* called for as it is.
C9_OmittedAttributesKept ==
    [][\A blockID \in RegIDs, blockData \in RegData, kw \in RegKws :
          AddBlock("Alpha", blockID, blockData, kw)
          => LET old == mats["Alpha"]
                 new == mats'["Alpha"]
                 b == Block(blockID, blockData, "")
             IN  /\ "name" \notin kw.given => BlockName(new, b) = BlockName(old, b)
                 /\ "aka" \notin kw.given => BlockAka(new, b) = BlockAka(old, b)
                 /\ "type" \notin kw.given => BlockType(new, b) = BlockType(old, b)
                 /\ "brightness" \notin kw.given
                       => BlockBrightness(new, b) = BlockBrightness(old, b)
                 /\ "opacity" \notin kw.given
                       => BlockOpacity(new, b) = BlockOpacity(old, b)
                 /\ "mapcolor" \notin kw.given => BlockColor(new, b) = BlockColor(old, b)
                 /\ "texture" \notin kw.given
                       => BlockTexture(new, b)[blockData] = BlockTexture(old, b)[blockData]]_vars

\* C10: an addBlock call for (p, v) with v # 0 leaves the name, aka, type,
\* color and texture of every other identifier as they are.
C10_SpecificVariantTouchesOneSlot ==
    [][\A blockID \in RegIDs, blockData \in RegData \ {0}, kw \in RegKws :
          AddBlock("Alpha", blockID, blockData, kw)
          => \A q \in ModelIDs, d \in Variants :
                <<q, d>> # <<blockID, blockData>>
                => LET old == mats["Alpha"]
                       new == mats'["Alpha"]
                       b == Block(q, d, "")
                   IN  /\ BlockName(new, b) = BlockName(old, b)
                       /\ BlockAka(new, b) = BlockAka(old, b)
                       /\ BlockType(new, b) = BlockType(old, b)
                       /\ BlockColor(new, b) = BlockColor(old, b)
                       /\ BlockTexture(new, b)[d] = BlockTexture(old, b)[d]]_vars

\* Some addBlock call on M, the one of __init__ included, was made for
\* (p, v) or for (p, 0).
Targeted(M, p, v) ==
    \E i \in 1 .. Len(M.allBlocks) :
        /\ M.allBlocks[i].ID = p
        /\ M.allBlocks[i].blockData \in {0, v}

\* C11: blockWithID gives a block for every identifier (p, v), and for one
\* that no addBlock call targeted, directly or through variant 0 of p, the
\* name, aka, type, brightness, opacity, color and texture the block resolves
\* are the defaults of the registry.
C11_UntargetedResolvesToDefaults ==
    \A p \in ModelIDs, v \in Variants :
        ~Targeted(mats["Alpha"], p, v)
        => LET M == mats["Alpha"]
               b == blockWithID(M, p, v)
           IN  /\ BlockKey(b) = <<p, v>>
               /\ BlockName(M, b) = M.defaultName
               /\ BlockAka(M, b) = ""
               /\ BlockType(M, b) = "NORMAL"
               /\ BlockBrightness(M, b) = defaultBrightness
               /\ BlockOpacity(M, b) = defaultOpacity
               /\ BlockColor(M, b) = defaultColor
               /\ BlockTexture(M, b)[v] = Faces(defaultTexture)

\* C12: allBlocks holds every identifier addBlock was called for once: no
\* two of its entries have the same (ID, blockData).
C12_KnownBlocksHaveNoDuplicates ==
    \A i, j \in 1 .. Len(mats["Alpha"].allBlocks) :
        i # j => BlockKey(mats["Alpha"].allBlocks[i])
                    # BlockKey(mats["Alpha"].allBlocks[j])

\* ------------------------------------------------------------------------
\* Properties of guessFilterTable (SpecGuess)
\* ------------------------------------------------------------------------
GuessCalled == lastCall.op = "guessFilterTable"

\* Stands for "no block" among identifiers
NoKey == <<-1, -1>>

\* What the lists the last guessFilterTable call returned say of the source
\* identifier key: the targets of its filter entries, NoKey when it is listed
\* as unavailable, and key itself when neither list has it.
Outcomes(key) ==
    LET f == lastCall.filters
        u == lastCall.unavailable
        targets == {f[i][2] : i \in {j \in 1 .. Len(f) : f[j][1] = key}}
        gone == IF \E i \in 1 .. Len(u) : u[i] = key THEN {NoKey} ELSE {}
    IN  IF targets \cup gone = {} THEN {key} ELSE targets \cup gone

\* The positions in M.allBlocks of the blocks whose name is n, starts with n,
\* contains n, and whose aka contains n
NameHits(M, n) ==
    {i \in 1 .. Len(M.allBlocks) : BlockName(M, M.allBlocks[i]) = n}
StartHits(M, n) ==
    {i \in 1 .. Len(M.allBlocks) : StartsWith(BlockName(M, M.allBlocks[i]), n)}
InNameHits(M, n) ==
    {i \in 1 .. Len(M.allBlocks) : Contains(BlockName(M, M.allBlocks[i]), n)}
InAkaHits(M, n) ==
    {i \in 1 .. Len(M.allBlocks) : Contains(BlockAka(M, M.allBlocks[i]), n)}

Least(S) == CHOOSE i \in S : \A j \in S : i <= j
Greatest(S) == CHOOSE i \in S : \A j \in S : i >= j

KeysAt(M, S) == {BlockKey(M.allBlocks[i]) : i \in S}

\* The identifiers the rules allow for a source block named n, the first rule
\* with a match deciding: a block of that name; the first block whose name
\* starts with n; the first whose name contains n; the first whose aka
\* contains n; a block named Purple Wool for Indigo Wool and Violet Wool;
\* no block.
RuleKeys(M, n) ==
    IF NameHits(M, n) # {} THEN KeysAt(M, NameHits(M, n))
    ELSE IF StartHits(M, n) # {} THEN KeysAt(M, {Least(StartHits(M, n))})
    ELSE IF InNameHits(M, n) # {} THEN KeysAt(M, {Least(InNameHits(M, n))})
    ELSE IF InAkaHits(M, n) # {} THEN KeysAt(M, {Least(InAkaHits(M, n))})
    ELSE IF n \in {"Indigo Wool", "Violet Wool"} /\ NameHits(M, "Purple Wool") # {}
    THEN KeysAt(M, NameHits(M, "Purple Wool"))
    ELSE {NoKey}

\* C13: for every source block the lists guessFilterTable returns hold the
\* one destination block of the first rule that has a match, the rules taken
\* in the order exact name, name starts with, name contains, aka contains,
\* Indigo Wool / Violet Wool to Purple Wool, unavailable.
C13_FirstRuleWithMatchDecides ==
    GuessCalled
    => LET matsFrom == mats[lastCall.matsFrom]
           matsTo == mats[lastCall.matsTo]
       IN  \A i \in 1 .. Len(matsFrom.allBlocks) :
              LET fromBlock == matsFrom.allBlocks[i]
              IN  \E k \in RuleKeys(matsTo, BlockName(matsFrom, fromBlock)) :
                     Outcomes(BlockKey(fromBlock)) = {k}

\* A source block whose name is no name nor the start of a name of the
\* destination was mapped to the first block whose name contains it, while a
\* block whose aka contains it stands earlier in the destination's list.
C13_Witness ==
    /\ GuessCalled
    /\ LET matsFrom == mats[lastCall.matsFrom]
           matsTo == mats[lastCall.matsTo]
       IN  \E i \in 1 .. Len(matsFrom.allBlocks) :
              LET fromBlock == matsFrom.allBlocks[i]
                  n == BlockName(matsFrom, fromBlock)
              IN  /\ NameHits(matsTo, n) = {}
                  /\ StartHits(matsTo, n) = {}
                  /\ InNameHits(matsTo, n) # {}
                  /\ InAkaHits(matsTo, n) # {}
                  /\ Least(InAkaHits(matsTo, n)) < Least(InNameHits(matsTo, n))
                  /\ Outcomes(BlockKey(fromBlock))
                        = KeysAt(matsTo, {Least(InNameHits(matsTo, n))})
                  /\ Outcomes(BlockKey(fromBlock)) # {BlockKey(fromBlock)}

\* C14: a source block whose name several destination blocks have is mapped
\* to the one of them that stands last in the destination's allBlocks.
C14_LastDefinedOfTheNameWins ==
    GuessCalled
    => LET matsFrom == mats[lastCall.matsFrom]
           matsTo == mats[lastCall.matsTo]
       IN  \A i \in 1 .. Len(matsFrom.allBlocks) :
              LET fromBlock == matsFrom.allBlocks[i]
                  hits == NameHits(matsTo, BlockName(matsFrom, fromBlock))
              IN  hits # {}
                  => Outcomes(BlockKey(fromBlock)) = KeysAt(matsTo, {Greatest(hits)})

\* The position, among hits, of a block that no block of hits compares below
LeastBlock(M, hits) ==
    CHOOSE i \in hits :
        \A j \in hits : BlockCmp(M.allBlocks[i], M.allBlocks[j]) <= 0

\* C14 as amended: a source block whose name several destination blocks have
\* is mapped to the one of them with the least (ID, blockData).
C14_LeastIdentifierOfTheNameWins ==
    GuessCalled
    => LET matsFrom == mats[lastCall.matsFrom]
           matsTo == mats[lastCall.matsTo]
       IN  \A i \in 1 .. Len(matsFrom.allBlocks) :
              LET fromBlock == matsFrom.allBlocks[i]
                  hits == NameHits(matsTo, BlockName(matsFrom, fromBlock))
              IN  hits # {}
                  => Outcomes(BlockKey(fromBlock))
                        = KeysAt(matsTo, {LeastBlock(matsTo, hits)})

\* Two destination blocks of different identifiers have the name of a source
\* block, the one defined last has the greater identifier, and the source
\* block has a filter entry to the other one.
C14_Witness ==
    /\ GuessCalled
    /\ LET matsFrom == mats[lastCall.matsFrom]
           matsTo == mats[lastCall.matsTo]
       IN  \E i \in 1 .. Len(matsFrom.allBlocks) :
              LET fromBlock == matsFrom.allBlocks[i]
                  hits == NameHits(matsTo, BlockName(matsFrom, fromBlock))
              IN  /\ Cardinality(KeysAt(matsTo, hits)) > 1
                  /\ LeastBlock(matsTo, hits) # Greatest(hits)
                  /\ BlockCmp(matsTo.allBlocks[LeastBlock(matsTo, hits)],
                              matsTo.allBlocks[Greatest(hits)]) < 0
                  /\ \E e \in 1 .. Len(lastCall.filters) :
                        lastCall.filters[e]
                           = <<BlockKey(fromBlock),
                               BlockKey(matsTo.allBlocks[LeastBlock(matsTo, hits)])>>

\* The filters of the last guessFilterTable call have the entry <<from, to>>.
HasFilter(from, to) ==
    \E e \in 1 .. Len(lastCall.filters) : lastCall.filters[e] = <<from, to>>

\* C15: with a source block named Violet Wool, no destination block named
\* Violet Wool and a destination block named Purple Wool, the filters have an
\* entry from the identifier of Violet Wool to that of a Purple Wool block.
C15_VioletWoolGoesToPurpleWool ==
    GuessCalled
    => LET matsFrom == mats[lastCall.matsFrom]
           matsTo == mats[lastCall.matsTo]
       IN  (/\ NameHits(matsTo, "Violet Wool") = {}
            /\ NameHits(matsTo, "Purple Wool") # {})
           => \A i \in NameHits(matsFrom, "Violet Wool") :
                 \E k \in KeysAt(matsTo, NameHits(matsTo, "Purple Wool")) :
                    HasFilter(BlockKey(matsFrom.allBlocks[i]), k)

\* The case of C15 as amended, for the source block at position i: the
\* destination has a block named Purple Wool, none whose name or aka
\* contains "Violet Wool", and its Purple Wool block of least identifier is
\* not at the identifier of the source block.
VioletCase(matsFrom, matsTo, i) ==
    /\ BlockName(matsFrom, matsFrom.allBlocks[i]) = "Violet Wool"
    /\ InNameHits(matsTo, "Violet Wool") = {}
    /\ InAkaHits(matsTo, "Violet Wool") = {}
    /\ NameHits(matsTo, "Purple Wool") # {}
    /\ BlockCmp(matsTo.allBlocks[LeastBlock(matsTo, NameHits(matsTo, "Purple Wool"))],
                matsFrom.allBlocks[i]) # 0

\* C15 as amended: with a source block named Violet Wool, no destination
\* block whose name or aka contains "Violet Wool", and a destination block
\* named Purple Wool whose identifier (the least one of that name) is not
\* the identifier of the Violet Wool block, the filters have an entry from
\* the identifier of Violet Wool to that of Purple Wool.
C15_VioletWoolGoesToPurpleWoolUnlessMatchedBefore ==
    GuessCalled
    => LET matsFrom == mats[lastCall.matsFrom]
           matsTo == mats[lastCall.matsTo]
       IN  \A i \in 1 .. Len(matsFrom.allBlocks) :
              VioletCase(matsFrom, matsTo, i)
              => HasFilter(BlockKey(matsFrom.allBlocks[i]),
                           BlockKey(matsTo.allBlocks[
                               LeastBlock(matsTo, NameHits(matsTo, "Purple Wool"))]))

\* guessFilterTable ran in the case of the amended C15 and returned the
\* entry.
C15_Witness ==
    /\ GuessCalled
    /\ LET matsFrom == mats[lastCall.matsFrom]
           matsTo == mats[lastCall.matsTo]
       IN  \E i \in 1 .. Len(matsFrom.allBlocks) :
              /\ VioletCase(matsFrom, matsTo, i)
              /\ \E k \in KeysAt(matsTo, NameHits(matsTo, "Purple Wool")) :
                    HasFilter(BlockKey(matsFrom.allBlocks[i]), k)

\* C20: every block of the source's allBlocks is the source of a filter
\* entry, or is listed as unavailable, or is in neither list and is matched
\* by the destination block of its own identifier, and only one of the
\* three; no filter entry maps an identifier to itself, none has an
\* unavailable identifier as its source, and the target of each is the
\* identifier of a block of the destination's allBlocks.
C20_ThreeOutcomes ==
    GuessCalled
    => LET matsFrom == mats[lastCall.matsFrom]
           matsTo == mats[lastCall.matsTo]
           f == lastCall.filters
           u == lastCall.unavailable
           Filtered(key) == \E e \in 1 .. Len(f) : f[e][1] = key
           Unavailable(key) == \E e \in 1 .. Len(u) : u[e] = key
       IN  /\ \A i \in 1 .. Len(matsFrom.allBlocks) :
                 LET fromBlock == matsFrom.allBlocks[i]
                     key == BlockKey(fromBlock)
                     own == /\ ~Filtered(key)
                            /\ ~Unavailable(key)
                            /\ key \in RuleKeys(matsTo, BlockName(matsFrom, fromBlock))
                 IN  /\ Filtered(key) \/ Unavailable(key) \/ own
                     /\ ~(Filtered(key) /\ Unavailable(key))
           /\ \A e \in 1 .. Len(f) :
                 /\ f[e][1] # f[e][2]
                 /\ ~Unavailable(f[e][1])
                 /\ f[e][2] \in KeysAt(matsTo, 1 .. Len(matsTo.allBlocks))
                 /\ f[e][1] \in KeysAt(matsFrom, 1 .. Len(matsFrom.allBlocks))
           /\ \A e \in 1 .. Len(u) :
                 u[e] \in KeysAt(matsFrom, 1 .. Len(matsFrom.allBlocks))

\* A guessFilterTable call met all three outcomes: a source block with a
\* filter entry, one listed as unavailable, and one (Air) that the
\* destination has at its own identifier under its own name.
C20_Witness ==
    /\ GuessCalled
    /\ Len(lastCall.filters) > 0
    /\ Len(lastCall.unavailable) > 0
    /\ LET matsFrom == mats[lastCall.matsFrom]
           matsTo == mats[lastCall.matsTo]
       IN  \E i \in 1 .. Len(matsFrom.allBlocks) :
              LET fromBlock == matsFrom.allBlocks[i]
              IN  /\ Outcomes(BlockKey(fromBlock)) = {BlockKey(fromBlock)}
                  /\ BlockKey(fromBlock)
                        \in KeysAt(matsTo, NameHits(matsTo, BlockName(matsFrom, fromBlock)))

\* ------------------------------------------------------------------------
\* Properties of blocksMatching (SpecMatch)
\* ------------------------------------------------------------------------
\* The lower-cased tokens of the query of the last blocksMatching call
QueryTokens == Split(Lower(Spell(lastCall.name)), " ")

\* The query tokens q can be assigned to pairwise different parts of the
\* name and aka of block v, each token being inside its part.
HasAssignment(M, v, q) ==
    LET parts == NameParts(M, v)
    IN  \E f \in [1 .. Len(q) -> 1 .. Len(parts)] :
           /\ \A a, b \in 1 .. Len(q) : a # b => f[a] # f[b]
           /\ \A a \in 1 .. Len(q) : InText(q[a], parts[f[a]])

\* C16: blocksMatching returns, in the order of allBlocks, the blocks whose
\* name and aka tokens the query tokens can be assigned to, one token of the
\* block for each query token that is inside it, and no other block.
C16_ReturnsBlocksWithAnAssignment ==
    lastCall.op = "blocksMatching"
    => LET M == mats[lastCall.m]
           Assignable(v) == HasAssignment(M, v, QueryTokens)
       IN  lastCall.result = SelectSeq(M.allBlocks, Assignable)

\* C17: blocksMatching returns the same list for every order of the tokens
\* of its query.
C17_TokenOrderDoesNotMatter ==
    lastCall.op = "blocksMatching"
    => \A p \in Permutations(1 .. Len(QueryTokens)) :
          MatchingFor(mats[lastCall.m], [i \in 1 .. Len(QueryTokens) |-> QueryTokens[p[i]]])
             = lastCall.result

\* ------------------------------------------------------------------------
\* Properties of rot90cw (SpecRot) and addYamlBlocks (SpecYaml)
\* ------------------------------------------------------------------------
\* C18: four rot90cw calls in a row give back the texture list they started
\* from.
C18_FourTurnsGiveTheTextureBack ==
    (lastCall.op = "rot90cw" /\ lastCall.turns = 4)
    => lastCall.texture = lastCall.start

HasId(kw) == "id" \in kw.given

\* The registry M but for its list of loaded documents
Defined(M) == [M EXCEPT !.yamlDatas = <<>>]

\* C19: no exception leaves an addYamlBlocks call whose document has
\* malformed block definitions, and the call leaves the registry, but for
\* yamlDatas, as the call for the same document without the definitions that
\* lack 'id' leaves it: such a definition changes nothing, and the
\* definitions before and after it are made as without it.
C19_RecordWithoutIdIsSkipped ==
    [][lastCall'.op = "addYamlBlocks"
       => LET m == lastCall'.m
              blocks == lastCall'.blockyaml.blocks
          IN  /\ ~lastCall'.raised
              /\ Defined(mats'[m])
                    = Defined(addYamlBlocks(mats[m],
                                            [blocks |-> SelectSeq(blocks, HasId)]).mats)]_vars

\* A document with a definition that lacks 'id' between two well-formed ones
\* was loaded, and both of these are known blocks.
C19_Witness ==
    /\ lastCall.op = "addYamlBlocks"
    /\ ~lastCall.raised
    /\ lastCall.blockyaml.blocks = <<YamlPlain, YamlNoId, YamlVariants>>
    /\ LET M == mats[lastCall.m]
       IN  /\ Len(M.allBlocks) = 4
           /\ BlockKey(M.allBlocks[2]) = <<1, 0>>
           /\ BlockKey(M.allBlocks[3]) = <<257, 0>>
           /\ BlockKey(M.allBlocks[4]) = <<257, 3>>
           /\ NameOf(M, 1, 0) = "Ab"
           /\ NameOf(M, 257, 1) = "Zz"
           /\ NameOf(M, 257, 3) = "Abc"

\* ------------------------------------------------------------------------
\* Properties of blocksByType (SpecReg)
\* ------------------------------------------------------------------------
\* C21: for every type tag t, blocksByType[t] lists the identifiers of the
\* blocks of allBlocks whose type is t now, those and no other.
C21_BlocksByTypeAgreesWithType ==
    LET M == mats["Alpha"]
    IN  \A t \in TypeTags :
           {BlockKey(M.blocksByType[t][i]) : i \in 1 .. Len(M.blocksByType[t])}
              = {BlockKey(M.allBlocks[i]) :
                    i \in {j \in 1 .. Len(M.allBlocks) : BlockType(M, M.allBlocks[j]) = t}}

\* ------------------------------------------------------------------------
\* Properties of conversionFunc called by several threads (SpecThreads)
\* ------------------------------------------------------------------------
\* The threads that have returned from conversionFunc(key[1], key[2])
Returned(key) ==
    {t \in Threads : /\ threads[t].pc = "returned"
                     /\ <<threads[t].destMats, threads[t].sourceMats>> = key}

\* C22: whatever the order of the threads' steps, guessFilterTable and the
\* making of the table run at most once for an ordered pair of two
\* registries, and all the threads that asked for the pair are returned one
\* and the same function.
C22_OneBuildForAllThreads ==
    \A key \in Pairs :
        key[1] # key[2] =>
            /\ guessRuns[key] <= 1
            /\ \A t1 \in Returned(key), t2 \in Returned(key) :
                  threads[t1].result = threads[t2].result

\* ------------------------------------------------------------------------
\* Properties of conversionFunc and later addBlock calls (Spec)
\* ------------------------------------------------------------------------
\* The table conversionFunc would make for the pair from the registries as
\* they are now
TableNow(key) ==
    LET guess == guessFilterTable(mats[key[2]], mats[key[1]])
    IN  _filterTable(guess.filters, guess.unavailable, FallbackBlock)

\* C23: once the function of an ordered pair is in _conversionFuncs, an
\* addBlock call on either registry leaves it there, the same object with
\* the same mapping of every block, and a later conversionFunc call for the
\* pair returns that object, whatever the registries hold by then.
C23_CachedFunctionOutlivesAddBlock ==
    [][\A key \in DOMAIN _conversionFuncs :
          /\ (lastCall'.op = "addBlock" /\ mats' # mats)
             => /\ key \in DOMAIN _conversionFuncs'
                /\ _conversionFuncs'[key].obj = _conversionFuncs[key].obj
                /\ \A blocks \in ModelIDs, data \in Variants :
                      Call(_conversionFuncs'[key], blocks, data)
                         = Call(_conversionFuncs[key], blocks, data)
          /\ (/\ lastCall'.op = "conversionFunc"
              /\ <<lastCall'.destMats, lastCall'.sourceMats>> = key)
             => /\ lastCall'.result.obj = _conversionFuncs[key].obj
                /\ \A blocks \in ModelIDs, data \in Variants :
                      Call(lastCall'.result, blocks, data)
                         = Call(_conversionFuncs[key], blocks, data)]_vars

\* A conversionFunc call has returned the cached function of a pair whose
\* mapping is not the one the registries would give now.
C23_Witness ==
    /\ lastCall.op = "conversionFunc"
    /\ lastCall.destMats # lastCall.sourceMats
    /\ ~lastCall.built
    /\ LET key == <<lastCall.destMats, lastCall.sourceMats>>
       IN  /\ key \in DOMAIN _conversionFuncs
           /\ lastCall.result = _conversionFuncs[key]
           /\ \E blocks \in ModelIDs, data \in Variants :
                 Call(lastCall.result, blocks, data) # TableNow(key)[blocks][data]

====
